---- MODULE Spec2Model ----
(***************************************************************************)
(* pydiskinfo: the entity graph built by WindowsSystem / LinuxSystem, the  *)
(* option-string parser of SanitizedArguments and the walk of              *)
(* pdi_util.main.                                                          *)
(*                                                                         *)
(* Objects live in heaps (parts, lds); an object's identity is its heap    *)
(* index.  An object that the code constructs and then drops (the second   *)
(* WindowsPartition with a known Device I.D., a LinuxPartition without a   *)
(* disk) is never referenced again and gets no heap cell.                  *)
(***************************************************************************)
EXTENDS Integers, Sequences, FiniteSets, TLC

VARIABLES
    platform,        \* sys.platform
    pc,              \* position of the construction
    physical_disks,  \* System._physical_disks: the PhysicalDisk objects
    parts,           \* heap of Partition objects
    partitions,      \* System._partitions: heap indices, flat index
    lds,             \* heap of LogicalDisk objects
    logical_disks,   \* System._logical_disks: heap indices, flat index
    wmi_disk,        \* the disk whose partition records are being enumerated
    wmi_partition,   \* the partition whose logical disk records are enumerated
    records,         \* number of raw WMI records consumed so far
    block_devices,   \* the tuples read from /proc/partitions
    df_lines,        \* the (source, target) of the df lines consumed so far
    reported,        \* history: <<disk, Device I.D.>> of the partition
                     \* records enumerated under each disk
    caller,          \* "library": create_system is called by library code,
                     \* "main": by pdi_util.main
    arguments,       \* main: the flags of the SanitizedArguments
    indent,          \* main: the indentation counter
    next_entity,     \* main: position of the loop over the top-level entities
    output,          \* main: the lines printed so far
    parse,           \* SanitizedArguments._parse_dp/_parse_pp/_parse_lp: the
                     \* option string, the position of the loop over it and
                     \* the locals of the function
    call,            \* the call of create_system: the factory called, the
                     \* exception that left it, where it was raised and its
                     \* __cause__
    entity,          \* the constructor of an entity: the class, the
                     \* defect of the raw record, the position in the
                     \* sequence of setters, the fields set so far and the
                     \* exception that left the constructor
    render           \* str_logical_disk: the logical disk it is given and
                     \* the local list strings

graph_vars == <<physical_disks, parts, partitions, lds, logical_disks>>
main_vars == <<caller, arguments, indent, next_entity, output>>

----------------------------------------------------------------------------
(* Bounds of the model *)

\* a build called by library code
MaxRecords == 5
MaxDevices == 3
MaxMounts == 2
\* the option strings enumerated in full: every string up to this length
MaxOptions == 3
\* a build called by main
MainMaxRecords == 3
MainMaxDevices == 2
MainMaxMounts == 1

RecordsBound == IF caller = "main" THEN MainMaxRecords ELSE MaxRecords
DevicesBound == IF caller = "main" THEN MainMaxDevices ELSE MaxDevices
MountsBound == IF caller = "main" THEN MainMaxMounts ELSE MaxMounts

----------------------------------------------------------------------------
(* Raw input *)

\* a WMI record that has no DeviceID attribute
NoAttribute == "<no attribute>"

WmiDiskIds == {"Some device id"}
WmiPartitionIds == {"X", "Y", NoAttribute}
WmiLogicalDiskIds == {"C:", "D:", NoAttribute}

\* lines of /proc/partitions as match.group(1, 2, 4): major, minor, name
ProcPartitions ==
    { <<"8", "0", "sda">>, <<"8", "1", "sda1">>, <<"8", "16", "sdb">>,
      <<"9", "0", "md0">>, <<"253", "1", "dm-1">> }

\* lines of df as (source, target); df lists a block device once, other
\* sources any number of times
DfDeviceSources == {"/dev/sda", "/dev/sda1", "/dev/sdb", "/dev/md0"}
DfSources == DfDeviceSources \cup {"tmpfs"}
DfTargets == {"/", "/mnt"}

\* int() of the digit strings the regular expression lets through
int(s) ==
    CASE s = "0" -> 0
      [] s = "1" -> 1
      [] s = "8" -> 8
      [] s = "9" -> 9
      [] s = "16" -> 16
      [] s = "253" -> 253

\* str() of the integers above
str(n) ==
    CASE n = 0 -> "0"
      [] n = 1 -> "1"
      [] n = 8 -> "8"
      [] n = 9 -> "9"
      [] n = 16 -> "16"
      [] n = 253 -> "253"

Min(S) == CHOOSE m \in S : \A n \in S : m <= n

----------------------------------------------------------------------------
(* Entities *)

\* PhysicalDisk.__init__
PhysicalDisk == [Path |-> "", major_number |-> -1, partitions |-> <<>>]

\* Partition.__init__
Partition(physical_disk) ==
    [DeviceID |-> "", Path |-> "", physical_disk |-> physical_disk,
     logical_disks |-> <<>>, isdummy |-> FALSE]

\* LogicalDisk.__init__
LogicalDisk == [DeviceID |-> "", Name |-> "", Path |-> "", partitions |-> <<>>]

\* a disk that forgets the partitions handed to it: C4 depends on the
\* append of PhysicalDisk.add_partition
PhysicalDisk_add_partition_dropped(disk, partition) == disk

\* PhysicalDisk.add_partition
PhysicalDisk_add_partition(disk, partition) ==
    [disk EXCEPT !.partitions = Append(@, partition)]

\* a logical disk that forgets the partitions handed to it: C3 depends on
\* the append of LogicalDisk.add_partition
LogicalDisk_add_partition_dropped(logical_disk, partition) == logical_disk

\* LogicalDisk.add_partition
LogicalDisk_add_partition(logical_disk, partition) ==
    [logical_disk EXCEPT !.partitions = Append(@, partition)]

\* a partition that forgets the logical disks handed to it: C28 depends on
\* the append of Partition.add_logical_disk
Partition_add_logical_disk_dropped(partition, heap, logical_disk) == partition

\* Partition.add_logical_disk: by Device I.D. of the objects in heap
Partition_add_logical_disk(partition, heap, logical_disk) ==
    IF \E i \in 1..Len(partition.logical_disks) :
           heap[partition.logical_disks[i]].DeviceID
               = heap[logical_disk].DeviceID
    THEN partition
    ELSE [partition EXCEPT !.logical_disks = Append(@, logical_disk)]

\* WindowsPartition._set_device_id
WindowsPartition_set_device_id(raw) ==
    IF raw = NoAttribute THEN "" ELSE raw

\* a constructor that does not keep the disk it is given: C25 depends on
\* the back-reference Partition.__init__ stores
WindowsPartition_without_disk(raw, disk) ==
    [Partition(0) EXCEPT !.DeviceID = WindowsPartition_set_device_id(raw)]

\* WindowsPartition.__init__
WindowsPartition(raw, disk) ==
    [Partition(disk) EXCEPT !.DeviceID = WindowsPartition_set_device_id(raw)]

\* WindowsLogicalDisk._get_device_id_name_mounted
WindowsLogicalDisk_get_device_id(raw) ==
    IF raw = NoAttribute THEN "" ELSE raw

\* WindowsLogicalDisk.__init__
WindowsLogicalDisk(raw) ==
    [LogicalDisk EXCEPT
        !.DeviceID = WindowsLogicalDisk_get_device_id(raw),
        !.Name = WindowsLogicalDisk_get_device_id(raw)]

\* WindowsPhysicalDisk.__init__ (_set_device_id_and_path)
WindowsPhysicalDisk(raw) ==
    [PhysicalDisk EXCEPT !.Path = IF raw = NoAttribute THEN "" ELSE raw]

\* LinuxPhysicalDisk.__init__
LinuxPhysicalDisk(major, name) ==
    [PhysicalDisk EXCEPT !.major_number = major, !.Path = "/dev/" \o name]

\* LinuxPartition.__init__
LinuxPartition(disk, name) ==
    [Partition(disk) EXCEPT !.DeviceID = name, !.Path = "/dev/" \o name]

\* LinuxLogicalDisk.__init__
LinuxLogicalDisk(path) ==
    [LogicalDisk EXCEPT !.Path = path, !.DeviceID = path, !.Name = path]

\* DummyPartition.__init__: the logical disk is attached at construction
DummyPartition(disk, heap, logical_disk) ==
    Partition_add_logical_disk(
        [Partition(disk) EXCEPT !.isdummy = TRUE], heap, logical_disk)

----------------------------------------------------------------------------
(* System: find-or-create on the flat indices.  The operators return the   *)
(* heap index of the registered object with the same key, 0 if none.       *)

\* lookups that never find a registered object: C5 and C2 depend on the
\* comparison of the Device I.D.s
System_add_partition_never_found(flat, heap, device_id) == 0

System_add_logical_disk_never_found(flat, heap, device_id) == 0

\* System._add_partition, the lookup loop
System_add_partition(flat, heap, device_id) ==
    LET hits == {i \in 1..Len(flat) : heap[flat[i]].DeviceID = device_id}
    IN  IF hits = {} THEN 0 ELSE flat[Min(hits)]

\* System._add_logical_disk, the lookup loop
System_add_logical_disk(flat, heap, device_id) ==
    LET hits == {i \in 1..Len(flat) : heap[flat[i]].DeviceID = device_id}
    IN  IF hits = {} THEN 0 ELSE flat[Min(hits)]

\* LinuxSystem._add_logical_disk, the lookup loop: by Name
LinuxSystem_add_logical_disk(flat, heap, name) ==
    LET hits == {i \in 1..Len(flat) : heap[flat[i]].Name = name}
    IN  IF hits = {} THEN 0 ELSE flat[Min(hits)]

----------------------------------------------------------------------------
(* Construction *)

NoArguments ==
    [logical_disk_orientation |-> FALSE, list_from_partitions |-> FALSE,
     physical_disk_list_partitions |-> FALSE,
     partition_list_logical_disks |-> FALSE,
     partition_show_physical_disk |-> FALSE,
     logical_disk_list_partitions |-> FALSE]

\* the values of sys.platform: the two with a backend and one without
Platforms == {"win32", "linux", "bogus"}

\* no factory has been called
NoCall == [factory |-> "", raised |-> "", at |-> "", cause |-> ""]

\* no entity is being constructed
NoEntity ==
    [class |-> "", attribute |-> "", defect |-> "", position |-> 0,
     fields |-> <<>>, raised |-> "",
     DriveType |-> 0]

InitBuild ==
    /\ platform \in Platforms
    /\ call = NoCall
    /\ pc = "create"
    /\ physical_disks = <<>>
    /\ parts = <<>>
    /\ partitions = <<>>
    /\ lds = <<>>
    /\ logical_disks = <<>>
    /\ wmi_disk = 0
    /\ wmi_partition = 0
    /\ records = 0
    /\ block_devices = <<>>
    /\ df_lines = <<>>
    /\ reported = {}
    /\ indent = 0
    /\ next_entity = 0
    /\ output = <<>>

\* no option string is being parsed; key tells whether the dictionary of
\* SanitizedArguments.__init__ has the option ("present"), has not and the
\* lookup is still to be made ("missing"), or has not and the except
\* branch has run ("default")
NoParse ==
    [function |-> "none", key |-> "present", arguments |-> <<>>,
     position |-> 0,
     return_list |-> <<>>, list_partitions |-> FALSE,
     list_logical_disks |-> FALSE, show_physical_disk |-> FALSE,
     size_human_readable |-> FALSE]

\* str_logical_disk has not been called
NoRender ==
    [logical_disk |-> [Size |-> 0, FreeSpace |-> 0], strings |-> <<>>]

\* create_system is called by library code
Init ==
    /\ InitBuild
    /\ caller = "library"
    /\ arguments = NoArguments
    /\ parse = NoParse
    /\ entity = NoEntity
    /\ render = NoRender

\* a factory that takes every platform but win32 for linux: C15 depends on
\* the else branch of create_system
create_system_else_linux(sys_platform) ==
    IF sys_platform = "win32" THEN "WindowsSystem" ELSE "LinuxSystem"

\* system.create_system: the class constructed for sys.platform, or the
\* exception raised
create_system(sys_platform) ==
    CASE sys_platform = "win32" -> "WindowsSystem"
      [] sys_platform = "linux" -> "LinuxSystem"
      [] OTHER -> "PyDiskInfoParseError"

\* pydiskinfo.create_system, the factory the package exports: the linux
\* branch is commented out
pydiskinfo_create_system(sys_platform) ==
    CASE sys_platform = "win32" -> "WindowsSystem"
      [] OTHER -> "PyDiskInfoParseError"

\* a factory goes on to the constructor of the class chosen, or raises
Construct(factory, chosen) ==
    /\ pc = "create"
    /\ pc' = CASE chosen = "WindowsSystem" -> "wmi"
              [] chosen = "LinuxSystem" -> "proc"
              [] OTHER -> "raised"
    /\ call' = IF chosen \in {"WindowsSystem", "LinuxSystem"}
               THEN [call EXCEPT !.factory = factory]
               ELSE [factory |-> factory, raised |-> chosen,
                     at |-> "factory", cause |-> ""]
    /\ UNCHANGED <<parse, entity, render>>
    /\ UNCHANGED <<platform, wmi_disk, wmi_partition, records, block_devices,
                   df_lines, reported,
                   caller, arguments, indent, next_entity, output>>
    /\ UNCHANGED graph_vars

\* system.create_system, the factory pdi_util.main imports
CreateSystem == Construct("system", create_system(platform))

\* pydiskinfo.create_system, called by library code
PackageCreateSystem ==
    /\ caller = "library"
    /\ Construct("pydiskinfo", pydiskinfo_create_system(platform))

\* the exception that leaves the constructor when opening a raw source
\* raises exc: the except clauses of WindowsSystem._parse_system,
\* LinuxSystem._get_block_devices and the df call of
\* LinuxSystem._parse_system
SourceError(source, exc) ==
    IF \/ source = "wmi" /\ exc \in {"x_access_denied", "x_wmi_authentication"}
       \/ source = "/proc/partitions" /\ exc = "FileNotFoundError"
       \/ source = "df" /\ exc = "OSError"
    THEN [raised |-> "PyDiskInfoParseError", cause |-> exc]
    ELSE [raised |-> exc, cause |-> ""]

\* a raw source cannot be opened: the constructor is left by an exception
\* and nothing is returned
SourceFails(source, exc) ==
    /\ pc' = "raised"
    /\ call' = [call EXCEPT !.raised = SourceError(source, exc).raised,
                            !.at = "source",
                            !.cause = SourceError(source, exc).cause]
    /\ UNCHANGED <<parse, entity, render>>
    /\ UNCHANGED <<platform, wmi_disk, wmi_partition, records, block_devices,
                   df_lines, reported,
                   caller, arguments, indent, next_entity, output>>
    /\ UNCHANGED graph_vars

\* WindowsSystem._parse_system: wmi.WMI() raises
WinOpenFails(exc) ==
    /\ pc = "wmi"
    /\ records = 0
    /\ SourceFails("wmi", exc)

\* LinuxSystem._get_block_devices: open('/proc/partitions') raises
LinuxOpenFails(exc) ==
    /\ pc = "proc"
    /\ block_devices = <<>>
    /\ SourceFails("/proc/partitions", exc)

\* LinuxSystem._parse_system: subprocess.run of df raises
LinuxDfFails(exc) ==
    /\ pc = "df"
    /\ df_lines = <<>>
    /\ SourceFails("df", exc)

\* WindowsSystem._parse_system, one iteration over cursor.Win32_DiskDrive()
WinDisk(raw) ==
    /\ pc = "wmi"
    /\ records < RecordsBound
    /\ records' = records + 1
    /\ physical_disks' = Append(physical_disks, WindowsPhysicalDisk(raw))
    /\ wmi_disk' = Len(physical_disks) + 1
    /\ wmi_partition' = 0
    /\ UNCHANGED <<parse, call, entity, render>>
    /\ UNCHANGED <<platform, pc, block_devices, df_lines, reported,
                   caller, arguments, indent, next_entity, output>>
    /\ UNCHANGED <<parts, partitions, lds, logical_disks>>

\* WindowsSystem._add_partitions, one iteration over the disk's associators
WinPartition(raw) ==
    /\ pc = "wmi"
    /\ wmi_disk # 0
    /\ records < RecordsBound
    /\ records' = records + 1
    /\ LET new == WindowsPartition(raw, wmi_disk)
           found == System_add_partition(partitions, parts, new.DeviceID)
           partition == IF found # 0 THEN found ELSE Len(parts) + 1
       IN  /\ parts' = IF found # 0 THEN parts ELSE Append(parts, new)
           /\ partitions' = IF found # 0 THEN partitions
                            ELSE Append(partitions, partition)
           /\ physical_disks' =
                  [physical_disks EXCEPT ![wmi_disk] =
                      PhysicalDisk_add_partition(@, partition)]
           /\ wmi_partition' = partition
           /\ reported' = reported \cup {<<wmi_disk, new.DeviceID>>}
    /\ UNCHANGED <<parse, call, entity, render>>
    /\ UNCHANGED <<platform, pc, wmi_disk, block_devices, df_lines,
                   caller, arguments, indent, next_entity, output>>
    /\ UNCHANGED <<lds, logical_disks>>

\* WindowsSystem._add_logical_disks, one iteration over the partition's
\* associators
WinLogicalDisk(raw) ==
    /\ pc = "wmi"
    /\ wmi_partition # 0
    /\ records < RecordsBound
    /\ records' = records + 1
    /\ LET new == WindowsLogicalDisk(raw)
           found == System_add_logical_disk(logical_disks, lds, new.DeviceID)
           logical_disk == IF found # 0 THEN found ELSE Len(lds) + 1
           heap == IF found # 0 THEN lds ELSE Append(lds, new)
       IN  /\ logical_disks' = IF found # 0 THEN logical_disks
                               ELSE Append(logical_disks, logical_disk)
           /\ lds' = [heap EXCEPT ![logical_disk] =
                         LogicalDisk_add_partition(@, wmi_partition)]
           /\ parts' = [parts EXCEPT ![wmi_partition] =
                           Partition_add_logical_disk(@, heap, logical_disk)]
    /\ UNCHANGED <<parse, call, entity, render>>
    /\ UNCHANGED <<platform, pc, wmi_disk, wmi_partition, block_devices,
                   df_lines, reported,
                   caller, arguments, indent, next_entity, output>>
    /\ UNCHANGED <<physical_disks, partitions>>

\* WindowsSystem._parse_system returns
WinDone ==
    /\ pc = "wmi"
    /\ pc' = "built"
    /\ UNCHANGED <<parse, call, entity, render>>
    /\ UNCHANGED <<platform, wmi_disk, wmi_partition, records, block_devices,
                   df_lines, reported,
                   caller, arguments, indent, next_entity, output>>
    /\ UNCHANGED graph_vars

\* LinuxSystem._get_block_devices, one line of /proc/partitions
LinuxReadLine(device) ==
    /\ pc = "proc"
    /\ Len(block_devices) < DevicesBound
    /\ \A i \in 1..Len(block_devices) : block_devices[i] # device
    /\ block_devices' = Append(block_devices, device)
    /\ UNCHANGED <<parse, call, entity, render>>
    /\ UNCHANGED <<platform, pc, wmi_disk, wmi_partition, records, df_lines,
                   reported,
                   caller, arguments, indent, next_entity, output>>
    /\ UNCHANGED graph_vars

\* LinuxSystem._get_scsi_hard_drives
LinuxSystem_get_scsi_hard_drives(devices) ==
    LET scsi == SelectSeq(devices,
                    LAMBDA d : d[1] = "8" /\ int(d[2]) % 16 = 0)
    IN  [i \in 1..Len(scsi) |-> LinuxPhysicalDisk(int(scsi[i][1]), scsi[i][3])]

\* LinuxSystem._parse_system, the loop over the metadisk devices
LinuxSystem_get_metadisks(devices) ==
    LET md == SelectSeq(devices, LAMBDA d : d[1] = "9")
    IN  [i \in 1..Len(md) |-> LinuxPhysicalDisk(int(md[i][1]), md[i][3])]

\* LinuxSystem._parse_system, the search of the disk of a device: the
\* first disk with the device's major number, 0 for None
LinuxSystem_find_disk(disks, device) ==
    LET hits == {i \in 1..Len(disks) :
                    str(disks[i].major_number) = device[1]}
    IN  IF hits = {} THEN 0 ELSE Min(hits)

\* LinuxSystem._parse_system, the loop that makes the partitions, from
\* device i on; g is the graph so far
RECURSIVE LinuxSystem_partitions(_, _, _)
LinuxSystem_partitions(devices, i, g) ==
    IF i > Len(devices) THEN g
    ELSE LET device == devices[i]
             disk == LinuxSystem_find_disk(g.physical_disks, device)
             partition == Len(g.parts) + 1
         IN  IF int(device[2]) > 0 /\ disk # 0
             THEN LinuxSystem_partitions(devices, i + 1,
                      [g EXCEPT
                          !.parts = Append(@, LinuxPartition(disk, device[3])),
                          !.physical_disks[disk] =
                              PhysicalDisk_add_partition(@, partition),
                          !.partitions = Append(@, partition)])
             ELSE LinuxSystem_partitions(devices, i + 1, g)

\* LinuxSystem._parse_system up to the call of df: the disks, then the
\* partitions
LinuxBlockDevices ==
    /\ pc = "proc"
    /\ pc' = "df"
    /\ LET disks == LinuxSystem_get_scsi_hard_drives(block_devices)
                        \o LinuxSystem_get_metadisks(block_devices)
           g == LinuxSystem_partitions(block_devices, 1,
                    [physical_disks |-> disks, parts |-> parts,
                     partitions |-> partitions])
       IN  /\ physical_disks' = g.physical_disks
           /\ parts' = g.parts
           /\ partitions' = g.partitions
    /\ UNCHANGED <<parse, call, entity, render>>
    /\ UNCHANGED <<platform, wmi_disk, wmi_partition, records, block_devices,
                   df_lines, reported,
                   caller, arguments, indent, next_entity, output>>
    /\ UNCHANGED <<lds, logical_disks>>

\* find-or-create of the logical disk of one df line in graph g: the graph
\* with the logical disk registered, and its heap index
LinuxSystem_checked_logical_disk(g, target) ==
    LET found == LinuxSystem_add_logical_disk(g.logical_disks, g.lds, target)
    IN  IF found # 0 THEN [g |-> g, id |-> found]
        ELSE [g |-> [g EXCEPT
                        !.lds = Append(@, LinuxLogicalDisk(target)),
                        !.logical_disks = Append(@, Len(g.lds) + 1)],
              id |-> Len(g.lds) + 1]

\* LinuxSystem._parse_system, the loop over self._partitions for one df
\* line, from flat index i on
RECURSIVE LinuxSystem_mount_partitions(_, _, _, _)
LinuxSystem_mount_partitions(source, target, i, g) ==
    IF i > Len(g.partitions) THEN g
    ELSE LET each_partition == g.partitions[i]
         IN  IF g.parts[each_partition].Path = source
             THEN LET c == LinuxSystem_checked_logical_disk(g, target)
                  IN  LinuxSystem_mount_partitions(source, target, i + 1,
                          [c.g EXCEPT
                              !.parts[each_partition] =
                                  Partition_add_logical_disk(@, c.g.lds, c.id),
                              !.lds[c.id] =
                                  LogicalDisk_add_partition(@, each_partition)])
             ELSE LinuxSystem_mount_partitions(source, target, i + 1, g)

\* LinuxSystem._parse_system, the loop over self._physical_disks for one df
\* line, from disk i on: the dummy partitions
RECURSIVE LinuxSystem_mount_disks(_, _, _, _)
LinuxSystem_mount_disks(source, target, i, g) ==
    IF i > Len(g.physical_disks) THEN g
    ELSE IF g.physical_disks[i].Path = source
         THEN LET c == LinuxSystem_checked_logical_disk(g, target)
                  dummy_partition == Len(c.g.parts) + 1
              IN  LinuxSystem_mount_disks(source, target, i + 1,
                      [c.g EXCEPT
                          !.parts = Append(@, DummyPartition(i, c.g.lds, c.id)),
                          !.partitions = Append(@, dummy_partition),
                          !.physical_disks[i] =
                              PhysicalDisk_add_partition(@, dummy_partition),
                          !.lds[c.id] =
                              LogicalDisk_add_partition(@, dummy_partition)])
         ELSE LinuxSystem_mount_disks(source, target, i + 1, g)

\* LinuxSystem._parse_system, one iteration over the lines of df
LinuxMount(source, target) ==
    /\ pc = "df"
    /\ Len(df_lines) < MountsBound
    /\ source \in DfDeviceSources =>
           \A i \in 1..Len(df_lines) : df_lines[i][1] # source
    /\ df_lines' = Append(df_lines, <<source, target>>)
    /\ LET g0 == [physical_disks |-> physical_disks, parts |-> parts,
                  partitions |-> partitions, lds |-> lds,
                  logical_disks |-> logical_disks]
           g1 == LinuxSystem_mount_partitions(source, target, 1, g0)
           g == LinuxSystem_mount_disks(source, target, 1, g1)
       IN  /\ physical_disks' = g.physical_disks
           /\ parts' = g.parts
           /\ partitions' = g.partitions
           /\ lds' = g.lds
           /\ logical_disks' = g.logical_disks
    /\ UNCHANGED <<parse, call, entity, render>>
    /\ UNCHANGED <<platform, pc, wmi_disk, wmi_partition, records,
                   block_devices, reported,
                   caller, arguments, indent, next_entity, output>>

\* LinuxSystem._parse_system returns
LinuxDone ==
    /\ pc = "df"
    /\ pc' = "built"
    /\ UNCHANGED <<parse, call, entity, render>>
    /\ UNCHANGED <<platform, wmi_disk, wmi_partition, records, block_devices,
                   df_lines, reported,
                   caller, arguments, indent, next_entity, output>>
    /\ UNCHANGED graph_vars

\* the steps of the constructors
Build ==
    \/ \E exc \in {"x_access_denied", "x_wmi_authentication"} :
           WinOpenFails(exc)
    \/ \E exc \in {"FileNotFoundError", "PermissionError"} :
           LinuxOpenFails(exc)
    \/ \E exc \in {"OSError"} : LinuxDfFails(exc)
    \/ \E raw \in WmiDiskIds : WinDisk(raw)
    \/ \E raw \in WmiPartitionIds : WinPartition(raw)
    \/ \E raw \in WmiLogicalDiskIds : WinLogicalDisk(raw)
    \/ WinDone
    \/ \E device \in ProcPartitions : LinuxReadLine(device)
    \/ LinuxBlockDevices
    \/ \E source \in DfSources, target \in DfTargets :
           LinuxMount(source, target)
    \/ LinuxDone

Next ==
    \/ CreateSystem
    \/ PackageCreateSystem
    \/ Build

vars == <<platform, pc, physical_disks, parts, partitions, lds, logical_disks,
          wmi_disk, wmi_partition, records, block_devices, df_lines, reported,
          caller, arguments, indent, next_entity, output, parse, call,
          entity, render>>

Spec == Init /\ [][Next]_vars

----------------------------------------------------------------------------
(* pdi_util.main: the walk.  A walk state w is the indentation counter,    *)
(* the lines printed so far and the arguments.  A line records what was printed, the number  *)
(* of spaces in front of it and the nesting depth of the loop that printed *)
(* it (the lines under a dummy partition are at the depth of the partition *)
(* line that was not printed), the value of the counter, the entity        *)
(* printed (its heap index, for a disk its position in                     *)
(* System._physical_disks) and the entity of the enclosing loop (0 at the  *)
(* top level).                                                             *)

\* print(f'{" "*indent}{...}'): a string times a negative number is empty
print(w, kind, depth, what, under) ==
    [w EXCEPT !.output =
        Append(@, [kind |-> kind,
                   spaces |-> IF w.indent > 0 THEN w.indent ELSE 0,
                   depth |-> depth,
                   indent |-> w.indent,
                   what |-> what,
                   under |-> under])]

\* a loop over the logical disks that prints nothing: C19 depends on the
\* lines of the inner loop
main_logical_disks_silent(w, each_partition, i, depth) == w

\* main, disk orientation: the loop over each_partition.get_logical_disks()
RECURSIVE main_logical_disks(_, _, _, _)
main_logical_disks(w, each_partition, i, depth) ==
    IF i > Len(parts[each_partition].logical_disks) THEN w
    ELSE main_logical_disks(
             print(w, "Logical Disk", depth,
                   parts[each_partition].logical_disks[i], each_partition),
             each_partition, i + 1, depth)

\* a loop over the partitions that raises the counter for a dummy
\* partition as well: C18 depends on the counter being left alone when the
\* partition line is skipped
RECURSIVE main_disk_partitions_deeper(_, _, _)
main_disk_partitions_deeper(w, each_physical_disk, i) ==
    IF i > Len(each_physical_disk.partitions) THEN w
    ELSE LET p == each_physical_disk.partitions[i]
             each_partition == parts[p]
             w1 == IF ~each_partition.isdummy
                   THEN [print(w, "Partition", 2, p,
                               each_partition.physical_disk)
                            EXCEPT !.indent = @ + 2]
                   ELSE [w EXCEPT !.indent = @ + 2]
             w2 == IF w.arguments.partition_list_logical_disks
                   THEN main_logical_disks(w1, p, 1,
                            IF each_partition.isdummy THEN 2 ELSE 3)
                   ELSE w1
         IN  main_disk_partitions_deeper([w2 EXCEPT !.indent = @ - 2],
                                         each_physical_disk, i + 1)

\* main, disk orientation: the loop over each_physical_disk.get_partitions()
RECURSIVE main_disk_partitions(_, _, _)
main_disk_partitions(w, each_physical_disk, i) ==
    IF i > Len(each_physical_disk.partitions) THEN w
    ELSE LET p == each_physical_disk.partitions[i]
             each_partition == parts[p]
             w1 == IF ~each_partition.isdummy
                   THEN [print(w, "Partition", 2, p,
                               each_partition.physical_disk)
                            EXCEPT !.indent = @ + 2]
                   ELSE w
             w2 == IF w.arguments.partition_list_logical_disks
                   THEN main_logical_disks(w1, p, 1,
                            IF each_partition.isdummy THEN 2 ELSE 3)
                   ELSE w1
         IN  main_disk_partitions([w2 EXCEPT !.indent = @ - 2],
                                  each_physical_disk, i + 1)

\* main, logical disk orientation: the loop over
\* each_logical_disk.get_partitions()
RECURSIVE main_logical_disk_partitions(_, _, _)
main_logical_disk_partitions(w, each_logical_disk, i) ==
    IF i > Len(lds[each_logical_disk].partitions) THEN w
    ELSE LET p == lds[each_logical_disk].partitions[i]
             each_partition == parts[p]
             w1 == IF ~each_partition.isdummy
                   THEN [print(w, "Partition", 2, p, each_logical_disk)
                            EXCEPT !.indent = @ + 2]
                   ELSE w
             w2 == IF w.arguments.partition_show_physical_disk
                   THEN print(w1, "Physical Disk",
                              IF each_partition.isdummy THEN 2 ELSE 3,
                              each_partition.physical_disk, p)
                   ELSE w1
         IN  main_logical_disk_partitions([w2 EXCEPT !.indent = @ - 2],
                                          each_logical_disk, i + 1)

\* a loop body that shows the disk of a partition whenever D was given,
\* whatever the orientation: C20 depends on the orientation test of main
main_partition_shows_disk(w, n) ==
    LET each_partition == partitions[n]
        w1 == [print(w, "Partition", 1, each_partition, 0)
                  EXCEPT !.indent = @ + 2]
        w2 == IF w.arguments.partition_list_logical_disks
              THEN main_logical_disks(w1, each_partition, 1, 2)
              ELSE w1
        w3 == IF w.arguments.partition_show_physical_disk
              THEN print(w2, "Physical Disk", 2,
                         parts[each_partition].physical_disk, each_partition)
              ELSE w2
    IN  [w3 EXCEPT !.indent = @ - 2]

\* main, the print of the header and the 'indent = 2' of either
\* orientation
main_system(w) ==
    [print([w EXCEPT !.indent = 0], "System", 0, 0, 0) EXCEPT !.indent = 2]

\* main, disk orientation: the body of the loop over
\* system.get_physical_disks(), for the disk at position n
main_physical_disk(w, n) ==
    LET each_physical_disk == physical_disks[n]
        w1 == [print(w, "Physical Disk", 1, n, 0) EXCEPT !.indent = @ + 2]
        w2 == IF w.arguments.physical_disk_list_partitions
              THEN main_disk_partitions(w1, each_physical_disk, 1)
              ELSE w1
    IN  [w2 EXCEPT !.indent = @ - 2]

\* main, logical disk orientation: the body of the loop over
\* system.get_logical_disks(), for the logical disk at position n
main_logical_disk(w, n) ==
    LET each_logical_disk == logical_disks[n]
        w1 == [print(w, "Logical Disk", 1, each_logical_disk, 0)
                  EXCEPT !.indent = @ + 2]
        w2 == IF w.arguments.logical_disk_list_partitions
              THEN main_logical_disk_partitions(w1, each_logical_disk, 1)
              ELSE w1
    IN  [w2 EXCEPT !.indent = @ - 2]

\* main, -p in disk orientation: the body of the loop over
\* system.get_partitions(), for the partition at position n
main_partition(w, n) ==
    LET each_partition == partitions[n]
        w1 == [print(w, "Partition", 1, each_partition, 0)
                  EXCEPT !.indent = @ + 2]
        w2 == IF w.arguments.partition_list_logical_disks
              THEN main_logical_disks(w1, each_partition, 1, 2)
              ELSE w1
    IN  [w2 EXCEPT !.indent = @ - 2]

\* main, -p in logical disk orientation: the body of the loop over
\* system.get_partitions(), for the partition at position n
main_partition_of_logical_disks(w, n) ==
    LET each_partition == partitions[n]
        w1 == [print(w, "Partition", 1, each_partition, 0)
                  EXCEPT !.indent = @ + 2]
        w2 == IF w.arguments.partition_show_physical_disk
              THEN print(w1, "Physical Disk", 2,
                         parts[each_partition].physical_disk, each_partition)
              ELSE w1
    IN  [w2 EXCEPT !.indent = @ - 2]

\* the walk state of main
Walk == [indent |-> indent, output |-> output, arguments |-> arguments]

\* the collection the walk iterates over at the top level
TopLevel ==
    IF arguments.list_from_partitions THEN partitions
    ELSE IF arguments.logical_disk_orientation THEN logical_disks
         ELSE physical_disks

\* a main that prints the header before it creates the system: C17
\* depends on create_system being called before the first print
MainSystem_header_first ==
    /\ pc = "create"
    /\ caller = "main"
    /\ output = <<>>
    /\ output' = main_system(Walk).output
    /\ UNCHANGED <<parse, call, entity, render>>
    /\ UNCHANGED <<platform, pc, wmi_disk, wmi_partition, records,
                   block_devices, df_lines, reported, caller, arguments,
                   indent, next_entity>>
    /\ UNCHANGED graph_vars

\* main up to the loops: the system has been created, its line is printed
MainSystem ==
    /\ pc = "built"
    /\ caller = "main"
    /\ pc' = "walk"
    /\ output' = main_system(Walk).output
    /\ indent' = main_system(Walk).indent
    /\ next_entity' = 1
    /\ UNCHANGED <<parse, call, entity, render>>
    /\ UNCHANGED <<platform, wmi_disk, wmi_partition, records, block_devices,
                   df_lines, reported, caller, arguments>>
    /\ UNCHANGED graph_vars

\* main, disk orientation: one iteration over system.get_physical_disks()
MainPhysicalDisk ==
    /\ pc = "walk"
    /\ ~arguments.logical_disk_orientation
    /\ ~arguments.list_from_partitions
    /\ next_entity <= Len(physical_disks)
    /\ LET w == main_physical_disk(Walk, next_entity)
       IN  /\ indent' = w.indent
           /\ output' = w.output
    /\ next_entity' = next_entity + 1
    /\ UNCHANGED <<parse, call, entity, render>>
    /\ UNCHANGED <<platform, pc, wmi_disk, wmi_partition, records,
                   block_devices, df_lines, reported, caller, arguments>>
    /\ UNCHANGED graph_vars

\* main, logical disk orientation: one iteration over
\* system.get_logical_disks()
MainLogicalDisk ==
    /\ pc = "walk"
    /\ arguments.logical_disk_orientation
    /\ ~arguments.list_from_partitions
    /\ next_entity <= Len(logical_disks)
    /\ LET w == main_logical_disk(Walk, next_entity)
       IN  /\ indent' = w.indent
           /\ output' = w.output
    /\ next_entity' = next_entity + 1
    /\ UNCHANGED <<parse, call, entity, render>>
    /\ UNCHANGED <<platform, pc, wmi_disk, wmi_partition, records,
                   block_devices, df_lines, reported, caller, arguments>>
    /\ UNCHANGED graph_vars

\* main, -p in disk orientation: one iteration over system.get_partitions()
MainPartition ==
    /\ pc = "walk"
    /\ ~arguments.logical_disk_orientation
    /\ arguments.list_from_partitions
    /\ next_entity <= Len(partitions)
    /\ LET w == main_partition(Walk, next_entity)
       IN  /\ indent' = w.indent
           /\ output' = w.output
    /\ next_entity' = next_entity + 1
    /\ UNCHANGED <<parse, call, entity, render>>
    /\ UNCHANGED <<platform, pc, wmi_disk, wmi_partition, records,
                   block_devices, df_lines, reported, caller, arguments>>
    /\ UNCHANGED graph_vars

\* main, -p in logical disk orientation: one iteration over
\* system.get_partitions()
MainPartitionOfLogicalDisks ==
    /\ pc = "walk"
    /\ arguments.logical_disk_orientation
    /\ arguments.list_from_partitions
    /\ next_entity <= Len(partitions)
    /\ LET w == main_partition_of_logical_disks(Walk, next_entity)
       IN  /\ indent' = w.indent
           /\ output' = w.output
    /\ next_entity' = next_entity + 1
    /\ UNCHANGED <<parse, call, entity, render>>
    /\ UNCHANGED <<platform, pc, wmi_disk, wmi_partition, records,
                   block_devices, df_lines, reported, caller, arguments>>
    /\ UNCHANGED graph_vars

\* main returns
MainReturn ==
    /\ pc = "walk"
    /\ next_entity > Len(TopLevel)
    /\ pc' = "done"
    /\ UNCHANGED <<parse, call, entity, render>>
    /\ UNCHANGED <<platform, wmi_disk, wmi_partition, records, block_devices,
                   df_lines, reported>>
    /\ UNCHANGED main_vars
    /\ UNCHANGED graph_vars

\* main: get_arguments has returned the arguments of the command line
InitMain ==
    /\ InitBuild
    /\ caller = "main"
    /\ arguments \in [logical_disk_orientation : BOOLEAN,
                      list_from_partitions : BOOLEAN,
                      physical_disk_list_partitions : BOOLEAN,
                      partition_list_logical_disks : BOOLEAN,
                      partition_show_physical_disk : BOOLEAN,
                      logical_disk_list_partitions : BOOLEAN]
    /\ parse = NoParse
    /\ entity = NoEntity
    /\ render = NoRender

NextMain ==
    \/ CreateSystem
    \/ Build
    \/ MainSystem
    \/ MainPhysicalDisk
    \/ MainLogicalDisk
    \/ MainPartition
    \/ MainPartitionOfLogicalDisks
    \/ MainReturn

SpecMain == InitMain /\ [][NextMain]_vars

----------------------------------------------------------------------------
(* SanitizedArguments: the parsers of the option strings.  An option       *)
(* string is the sequence of its characters.                               *)

\* an elif chain that names the media property otherwise than the entity
\* does: C8 depends on the names of the chain
parse_dp_property_renamed(each_option) ==
    CASE each_option \in {"s", "S"} -> "Size"
      [] each_option = "i" -> "Disk Number"
      [] each_option = "d" -> "Device I.D."
      [] each_option = "p" -> "Path"
      [] each_option = "t" -> "Media Type"
      [] each_option = "n" -> "Serial"
      [] each_option = "m" -> "Model"
      [] each_option = "c" -> "Sectors"
      [] each_option = "b" -> "Bytes per Sector"
      [] each_option = "h" -> "Heads"
      [] each_option = "C" -> "Cylinders"
      [] each_option = "f" -> "Firmware"
      [] each_option = "I" -> "Interface"
      [] each_option = "M" -> "Media Loaded"
      [] each_option = "a" -> "Status"
      [] OTHER -> ""

\* an elif chain with a final else that takes the character as a property
\* name: C10 depends on the chain having no such branch
parse_pp_property_else(each_option) ==
    CASE each_option = "b" -> "Blocksize"
      [] each_option = "B" -> "Bootable"
      [] each_option = "o" -> "Active"
      [] each_option = "x" -> "Description"
      [] each_option = "p" -> "Path"
      [] each_option = "d" -> "Device I.D."
      [] each_option = "i" -> "Disk Number"
      [] each_option = "N" -> "Partition Number"
      [] each_option = "c" -> "Blocks"
      [] each_option = "r" -> "Primary"
      [] each_option \in {"s", "S"} -> "Size"
      [] each_option = "e" -> "Offset"
      [] each_option = "t" -> "Type"
      [] OTHER -> each_option

\* an append without the membership test: C9 depends on the test of
\* _add_to_list
add_to_list_unconditional(some_list, item) == Append(some_list, item)

\* the property a character selects in _parse_dp (the elif chain), "" for
\* a character with no branch
parse_dp_property(each_option) ==
    CASE each_option = "s" -> "Size"
      [] each_option = "S" -> "Size"
      [] each_option = "i" -> "Disk Number"
      [] each_option = "d" -> "Device I.D."
      [] each_option = "p" -> "Path"
      [] each_option = "t" -> "Media"
      [] each_option = "n" -> "Serial"
      [] each_option = "m" -> "Model"
      [] each_option = "c" -> "Sectors"
      [] each_option = "b" -> "Bytes per Sector"
      [] each_option = "h" -> "Heads"
      [] each_option = "C" -> "Cylinders"
      [] each_option = "f" -> "Firmware"
      [] each_option = "I" -> "Interface"
      [] each_option = "M" -> "Media Loaded"
      [] each_option = "a" -> "Status"
      [] OTHER -> ""

\* the property a character selects in _parse_pp
parse_pp_property(each_option) ==
    CASE each_option = "b" -> "Blocksize"
      [] each_option = "B" -> "Bootable"
      [] each_option = "o" -> "Active"
      [] each_option = "x" -> "Description"
      [] each_option = "p" -> "Path"
      [] each_option = "d" -> "Device I.D."
      [] each_option = "i" -> "Disk Number"
      [] each_option = "N" -> "Partition Number"
      [] each_option = "c" -> "Blocks"
      [] each_option = "r" -> "Primary"
      [] each_option = "s" -> "Size"
      [] each_option = "S" -> "Size"
      [] each_option = "e" -> "Offset"
      [] each_option = "t" -> "Type"
      [] OTHER -> ""

\* the property a character selects in _parse_lp
parse_lp_property(each_option) ==
    CASE each_option = "x" -> "Description"
      [] each_option = "d" -> "Device I.D."
      [] each_option = "t" -> "Type"
      [] each_option = "f" -> "Filesystem"
      [] each_option = "F" -> "Free Space"
      [] each_option = "U" -> "Max Component Length"
      [] each_option = "v" -> "Name"
      [] each_option = "M" -> "Mounted"
      [] each_option = "p" -> "Path"
      [] each_option = "s" -> "Size"
      [] each_option = "S" -> "Size"
      [] each_option = "V" -> "Label"
      [] each_option = "n" -> "Serial"
      [] OTHER -> ""

\* SanitizedArguments._add_to_list
add_to_list(some_list, item) ==
    IF \E i \in 1..Len(some_list) : some_list[i] = item
    THEN some_list
    ELSE Append(some_list, item)

\* branches for 's' and 'S' that set the size flag only while the list has
\* no Size yet: C12 depends on every Size character setting the flag
parse_property_first_wins(st, each_option, property) ==
    IF property = "" THEN st
    ELSE [st EXCEPT
            !.return_list = add_to_list(@, property),
            !.size_human_readable =
                IF \E i \in 1..Len(st.return_list) :
                       st.return_list[i] = "Size"
                THEN @
                ELSE IF each_option = "s" THEN TRUE
                ELSE IF each_option = "S" THEN FALSE ELSE @]

\* the branches every parser has for a property: the property goes to the
\* list, and 's' and 'S' set the size flag
parse_property(st, each_option, property) ==
    IF property = "" THEN st
    ELSE [st EXCEPT
            !.return_list = add_to_list(@, property),
            !.size_human_readable =
                IF each_option = "s" THEN TRUE
                ELSE IF each_option = "S" THEN FALSE ELSE @]

\* SanitizedArguments._parse_dp, the body of the loop
parse_dp(st, each_option) ==
    IF each_option = "P" THEN [st EXCEPT !.list_partitions = TRUE]
    ELSE parse_property(st, each_option, parse_dp_property(each_option))

\* SanitizedArguments._parse_pp, the body of the loop
parse_pp(st, each_option) ==
    IF each_option = "L" THEN [st EXCEPT !.list_logical_disks = TRUE]
    ELSE IF each_option = "D" THEN [st EXCEPT !.show_physical_disk = TRUE]
    ELSE parse_property(st, each_option, parse_pp_property(each_option))

\* SanitizedArguments._parse_lp, the body of the loop
parse_lp(st, each_option) ==
    IF each_option = "P" THEN [st EXCEPT !.list_partitions = TRUE]
    ELSE parse_property(st, each_option, parse_lp_property(each_option))

\* the body of the loop of the parser called function
parse_option(function, st, each_option) ==
    CASE function = "dp" -> parse_dp(st, each_option)
      [] function = "pp" -> parse_pp(st, each_option)
      [] function = "lp" -> parse_lp(st, each_option)

\* the option strings of the tests and the defaults of get_arguments
LongOptionStrings ==
    { <<"P","i","p","t","n","s">>, <<"L","D","d","t","s","e">>,
      <<"P","V","f","F">>,
      <<"s","i","d","p","t","n","m","c","b","h","C","f","I","M","a">>,
      <<"b","B","o","x","p","d","i","N","c","r","s","e","t">>,
      <<"x","d","t","f","F","U","v","M","p","s","V","n">>,
      <<"P","X","S","s","i","p","d","t","n","m","c","b","h","C","f","I","M",
        "a">>,
      <<"L","X","D","b","B","o","x","p","i","d","N","c","r","s","S","e","t">>,
      <<"P","X","x","d","t","f","F","U","p","v","M","s","S","V","n">> }

\* the characters of the option strings enumerated in full: structural
\* tokens, the two Size tokens, two more properties and a character no
\* parser knows
ShortAlphabet == {"P", "L", "D", "s", "S", "d", "p", "X"}

OptionStrings ==
    LongOptionStrings
        \cup UNION {[1..n -> ShortAlphabet] : n \in 0..MaxOptions}

\* SanitizedArguments.__init__ looks an option up in its dictionary and
\* calls the parser with the string found
InitParse ==
    /\ InitBuild
    /\ caller = "library"
    /\ arguments = NoArguments
    /\ entity = NoEntity
    /\ render = NoRender
    /\ \/ \E function \in {"dp", "pp", "lp"}, string \in OptionStrings :
              parse = [NoParse EXCEPT !.function = function,
                                      !.arguments = string]
       \/ \E function \in {"dp", "pp", "lp"} :
              parse = [NoParse EXCEPT !.function = function,
                                      !.key = "missing"]

\* _parse_dp, _parse_pp, _parse_lp: one iteration of the loop over the
\* option string
ParseOption(function) ==
    /\ parse.function = function
    /\ parse.key = "present"
    /\ parse.position < Len(parse.arguments)
    /\ parse' = [parse_option(function, parse,
                              parse.arguments[parse.position + 1])
                    EXCEPT !.position = @ + 1]
    /\ UNCHANGED <<platform, pc, wmi_disk, wmi_partition, records,
                   block_devices, df_lines, reported>>
    /\ UNCHANGED main_vars
    /\ UNCHANGED graph_vars
    /\ UNCHANGED <<call, entity, render>>

\* SanitizedArguments.__init__, the except KeyError branch of an option:
\* an empty list and false flags
OptionMissing ==
    /\ parse.function # "none"
    /\ parse.key = "missing"
    /\ parse' = [parse EXCEPT !.key = "default",
                              !.return_list = <<>>,
                              !.list_partitions = FALSE,
                              !.list_logical_disks = FALSE,
                              !.show_physical_disk = FALSE,
                              !.size_human_readable = FALSE]
    /\ UNCHANGED <<platform, pc, wmi_disk, wmi_partition, records,
                   block_devices, df_lines, reported>>
    /\ UNCHANGED main_vars
    /\ UNCHANGED graph_vars
    /\ UNCHANGED <<call, entity, render>>

NextParse ==
    \/ ParseOption("dp")
    \/ ParseOption("pp")
    \/ ParseOption("lp")
    \/ OptionMissing

SpecParse == InitParse /\ [][NextParse]_vars

\* the parser has returned, or the except branch has run
Parsed ==
    /\ parse.function # "none"
    /\ parse.key # "missing"
    /\ parse.position = Len(parse.arguments)


----------------------------------------------------------------------------
(* Properties of the built graph *)

Range(seq) == {seq[i] : i \in 1..Len(seq)}

\* System.get_partitions / get_logical_disks as sets of objects
FlatPartitions == Range(partitions)
FlatLogicalDisks == Range(logical_disks)

\* the disks whose partition list holds partition p
Owners(p) == {d \in 1..Len(physical_disks) :
                 p \in Range(physical_disks[d].partitions)}

Built == pc = "built"

\* C1: after a successful build no two Partition entities of the flat
\* partition index share a Device I.D., dummy partitions included.
C1_PartitionDeviceIdsUnique ==
    Built =>
        \A i, j \in 1..Len(partitions) :
            i # j => parts[partitions[i]].DeviceID
                         # parts[partitions[j]].DeviceID

\* C2: whatever raw logical disk records have been consumed, the flat
\* logical disk index holds no two entities with the same Device I.D., the
\* lookup of a registered I.D. returns the registered instance, and the
\* instances wired to partitions are the registered ones.
C2_LogicalDiskFindOrCreate ==
    /\ \A i, j \in 1..Len(logical_disks) :
           i # j => lds[logical_disks[i]].DeviceID
                        # lds[logical_disks[j]].DeviceID
    /\ \A l \in FlatLogicalDisks :
           IF platform = "win32"
           THEN System_add_logical_disk(logical_disks, lds, lds[l].DeviceID)
                    = l
           ELSE LinuxSystem_add_logical_disk(logical_disks, lds, lds[l].Name)
                    = l
    /\ \A p \in 1..Len(parts) :
           Range(parts[p].logical_disks) \subseteq FlatLogicalDisks

\* C2 witness: a registered logical disk was looked up again and wired to
\* a second partition.
C2_Witness ==
    \E l \in FlatLogicalDisks : Cardinality(Range(lds[l].partitions)) >= 2

\* C3: after a build, L is among P's logical disks exactly when P is among
\* L's partitions.
C3_BidirectionalConsistency ==
    Built =>
        \A p \in 1..Len(parts), l \in 1..Len(lds) :
            (l \in Range(parts[p].logical_disks))
                <=> (p \in Range(lds[l].partitions))

\* C3 witness: a built Linux graph where a partition of the partition table
\* carries a logical disk and a dummy partition carries another.
C3_Witness ==
    /\ Built
    /\ platform = "linux"
    /\ \E p \in 1..Len(parts) : ~parts[p].isdummy
                                    /\ parts[p].logical_disks # <<>>
    /\ \E p \in 1..Len(parts) : parts[p].isdummy

\* C4 as stated: every partition of the flat index is in the partition list
\* of exactly one physical disk.
C4_OwnedByExactlyOneDisk ==
    Built => \A p \in FlatPartitions : Cardinality(Owners(p)) = 1

\* C4 amended: every partition of the flat index is in the partition list
\* of at least one physical disk: of exactly the disks whose records
\* reported its Device I.D. on Windows, of exactly one disk on Linux.
C4_OwnedByReportingDisks ==
    Built =>
        \A p \in FlatPartitions :
            /\ Owners(p) # {}
            /\ platform = "win32" =>
                   Owners(p) = {d \in 1..Len(physical_disks) :
                                   <<d, parts[p].DeviceID>> \in reported}
            /\ platform = "linux" => Cardinality(Owners(p)) = 1

\* C4 witness: a built graph whose flat index has a partition that two
\* disks list.
C4_Witness ==
    /\ Built
    /\ \E p \in FlatPartitions : Cardinality(Owners(p)) = 2

\* C5: when two disk records each report a partition with Device I.D. X,
\* the flat index holds exactly one partition X and that instance is in
\* the partition list of both disks.
C5_ScenarioB ==
    Built =>
        \A d1, d2 \in 1..Len(physical_disks), x \in {"", "X", "Y"} :
            (d1 # d2 /\ <<d1, x>> \in reported /\ <<d2, x>> \in reported) =>
                /\ Cardinality({i \in 1..Len(partitions) :
                                   parts[partitions[i]].DeviceID = x}) = 1
                /\ \E p \in FlatPartitions :
                       /\ parts[p].DeviceID = x
                       /\ p \in Range(physical_disks[d1].partitions)
                       /\ p \in Range(physical_disks[d2].partitions)

\* C5 witness: two disks have reported the same partition Device I.D.
C5_Witness ==
    /\ Built
    /\ \E d1, d2 \in 1..Len(physical_disks) :
           d1 # d2 /\ <<d1, "X">> \in reported /\ <<d2, "X">> \in reported

\* C6: when the source of a logical disk is the path of a physical disk,
\* exactly one dummy partition exists for it, System.get_partitions() does
\* not hold it and the logical disk's get_partitions() does.
C6_ScenarioC ==
    Built =>
        \A l \in FlatLogicalDisks :
            LET dummies == {p \in 1..Len(parts) :
                               /\ parts[p].isdummy
                               /\ l \in Range(parts[p].logical_disks)}
            IN  dummies # {} =>
                    /\ Cardinality(dummies) = 1
                    /\ dummies \cap FlatPartitions = {}
                    /\ dummies \subseteq Range(lds[l].partitions)

\* the characters the help text of get_arguments documents for -dp
DpOptions ==
    {"P", "s", "S", "i", "d", "p", "t", "n", "m", "c", "b", "h", "C", "f",
     "I", "M", "a"}

\* the characters the help text documents for -pp
PpOptions ==
    {"L", "D", "b", "B", "o", "x", "p", "d", "i", "N", "c", "r", "s", "S",
     "e", "t"}

\* the characters the help text documents for -lp
LpOptions ==
    {"P", "x", "d", "t", "f", "F", "U", "v", "M", "p", "s", "S", "V", "n"}

\* the documented characters of the option string of a parser
Options(function) ==
    CASE function = "dp" -> DpOptions
      [] function = "pp" -> PpOptions
      [] function = "lp" -> LpOptions

\* the documented characters that list or show related entities
StructuralOptions(function) ==
    CASE function = "dp" -> {"P"}
      [] function = "pp" -> {"L", "D"}
      [] function = "lp" -> {"P"}

\* the keys PhysicalDisk.__init__ declares
PhysicalDiskKeys ==
    {"Size", "Disk Number", "Device I.D.", "Path", "Media", "Serial",
     "Model", "Sectors", "Heads", "Cylinders", "Bytes per Sector",
     "Firmware", "Interface", "Media Loaded", "Status"}

\* the keys Partition.__init__ declares
PartitionKeys ==
    {"Blocksize", "Bootable", "Active", "Description", "Path",
     "Device I.D.", "Disk Number", "Partition Number", "Blocks", "Primary",
     "Size", "Offset", "Type"}

\* the keys LogicalDisk.__init__ declares
LogicalDiskKeys ==
    {"Description", "Device I.D.", "Type", "Filesystem", "Free Space",
     "Max Component Length", "Name", "Path", "Size", "Label", "Serial",
     "Mounted"}

\* the keys of the entity a parser selects properties of
Keys(function) ==
    CASE function = "dp" -> PhysicalDiskKeys
      [] function = "pp" -> PartitionKeys
      [] function = "lp" -> LogicalDiskKeys

\* the property a character selects in the parser called function
property_of(function, each_option) ==
    CASE function = "dp" -> parse_dp_property(each_option)
      [] function = "pp" -> parse_pp_property(each_option)
      [] function = "lp" -> parse_lp_property(each_option)

\* _parse_dp, _parse_pp, _parse_lp as a whole: the loop over the
\* characters i.. of the option string, from the locals st
RECURSIVE parse_arguments(_, _, _, _)
parse_arguments(function, st, option_string, i) ==
    IF i > Len(option_string) THEN st
    ELSE parse_arguments(function,
                         parse_option(function, st, option_string[i]),
                         option_string, i + 1)

\* what a parser returns: the list and the flags
parse_result(st) ==
    <<st.return_list, st.list_partitions, st.list_logical_disks,
      st.show_physical_disk, st.size_human_readable>>

\* the characters of the option string being parsed
OptionCharacters == Range(parse.arguments)

\* the positions of the option string the loop has been through
Processed == 1..parse.position

\* the first position of the option string whose character selects name
FirstOccurrence(name) ==
    Min({k \in 1..Len(parse.arguments) :
            property_of(parse.function, parse.arguments[k]) = name})

C9_OrderedDuplicateFreeList ==
    parse.function # "none" =>
        LET names == {property_of(parse.function, parse.arguments[k]) :
                        k \in {j \in Processed :
                                 parse.arguments[j]
                                    \notin {"P", "L", "D"}}} \ {""}
            list == parse.return_list
        IN  /\ \A i, j \in 1..Len(list) : list[i] = list[j] => i = j
            /\ Range(list) = names
            /\ Len(list) = Cardinality(names)
            /\ \A i, j \in 1..Len(list) :
                   i < j => FirstOccurrence(list[i]) < FirstOccurrence(list[j])

\* a string with two characters for the same property around a structural
\* character has been parsed
C9_Witness ==
    /\ Parsed
    /\ parse.arguments = <<"s", "P", "S">>
    /\ parse.function = "dp"
    /\ parse.return_list = <<"Size">>

\* C10: characters the help text does not document are ignored: the
\* parser gets to the end of every string, and returns what it returns
\* for the string without those characters.
C10_UnknownCharactersIgnored ==
    Parsed =>
        parse_result(parse)
            = parse_result(
                parse_arguments(
                    parse.function, NoParse,
                    SelectSeq(parse.arguments,
                              LAMBDA o : o \in Options(parse.function)),
                    1))

\* a string with an undocumented character between documented ones has been
\* parsed
C10_Witness ==
    /\ Parsed
    /\ \E k \in 2..(Len(parse.arguments) - 1) :
           /\ parse.arguments[k] \notin Options(parse.function)
           /\ parse.arguments[k - 1] \in Options(parse.function)
           /\ parse.arguments[k + 1] \in Options(parse.function)
    /\ Len(parse.return_list) >= 2

----------------------------------------------------------------------------
(* The size flag *)

\* the positions of the option string that hold a Size character
SizePositions ==
    {k \in 1..Len(parse.arguments) : parse.arguments[k] \in {"s", "S"}}

Max(S) == CHOOSE m \in S : \A n \in S : m >= n

\* C11: when both 's' and 'S' are in the option string, the first of them
\* decides the size flag.
C11_FirstSizeTokenDecides ==
    (Parsed /\ {"s", "S"} \subseteq OptionCharacters) =>
        (parse.size_human_readable
            <=> parse.arguments[Min(SizePositions)] = "s")

\* C12: for each of the three options, the size flag is true exactly when
\* the string has a Size character and the last of them is 's'; it is
\* false with no Size character and with no option string at all.
C12_LastSizeTokenDecides ==
    Parsed =>
        (parse.size_human_readable
            <=> (/\ SizePositions # {}
                 /\ parse.arguments[Max(SizePositions)] = "s"))

\* a string with 'S' before 's' has been parsed to a true flag by the
\* logical disk parser
C12_Witness ==
    /\ Parsed
    /\ parse.function = "lp"
    /\ \E i, j \in SizePositions :
           i < j /\ parse.arguments[i] = "S" /\ parse.arguments[j] = "s"
    /\ Max(SizePositions) < Len(parse.arguments)
    /\ parse.size_human_readable

----------------------------------------------------------------------------
(* Failures of construction *)

\* no step of enumeration or construction has run
NothingBuilt ==
    /\ physical_disks = <<>> /\ parts = <<>> /\ partitions = <<>>
    /\ lds = <<>> /\ logical_disks = <<>>
    /\ records = 0 /\ block_devices = <<>> /\ df_lines = <<>>

\* C13: when a raw source cannot be opened (access denied, authentication,
\* missing file, missing command), the exception that leaves the
\* constructor is PyDiskInfoParseError with the cause attached, and no
\* System is returned.
C13_SourceFailureIsTyped ==
    call.at = "source" =>
        /\ call.raised = "PyDiskInfoParseError"
        /\ call.cause # ""
        /\ pc = "raised"

\* C15: on a platform with no backend, both factories raise
\* PyDiskInfoParseError before any step of enumeration or construction, and
\* return no System.
C15_UnknownPlatformRaises ==
    (platform \notin {"win32", "linux"} /\ pc # "create") =>
        /\ pc = "raised"
        /\ call.raised = "PyDiskInfoParseError"
        /\ call.at = "factory"
        /\ NothingBuilt

\* the factory main imports has raised on the platform without a backend
C15_Witness ==
    /\ platform = "bogus"
    /\ call.factory = "system"
    /\ call.raised = "PyDiskInfoParseError"
    /\ pc = "raised"

\* C16: the factory the package exports goes on to LinuxSystem on 'linux'
\* and to WindowsSystem on 'win32'.
C16_PackageFactoryChoosesBackend ==
    (call.factory = "pydiskinfo" /\ pc # "create") =>
        /\ platform = "linux" =>
               pc \in {"proc", "df", "built"} \/ call.at = "source"
        /\ platform = "win32" =>
               pc \in {"wmi", "built"} \/ call.at = "source"

----------------------------------------------------------------------------
(* The constructors of the Windows entities: one setter per field.  A raw  *)
(* property is a value of the expected type ("value"), is not an attribute *)
(* of the record ("missing"), is None ("null") or is of a kind the         *)
(* conversion does not take ("unconvertible").                             *)

Defects == {"missing", "null", "unconvertible"}

\* a setter: the key it sets, how it converts the raw property, the
\* exceptions its except clauses name, and the value they assign
Setter(key, convert, catches, sentinel) ==
    [key |-> key, convert |-> convert, catches |-> catches,
     sentinel |-> sentinel]

AttributeError == "AttributeError"
ValueError == "ValueError"
TypeError == "TypeError"

\* WindowsPhysicalDisk.__init__: the setters in the order of the calls
WindowsPhysicalDisk_setters ==
    << Setter("Size", "int", {ValueError}, "-1"),
       Setter("Disk Number", "int", {ValueError}, "-1"),
       Setter("Path", "assign", {AttributeError}, ""),
       Setter("Device I.D.", "assign", {AttributeError}, ""),
       Setter("Media", "assign", {AttributeError}, ""),
       Setter("Serial", "assign", {AttributeError}, ""),
       Setter("Model", "assign", {AttributeError}, ""),
       Setter("Sectors", "int", {ValueError}, "-1"),
       Setter("Heads", "int", {ValueError}, "-1"),
       Setter("Cylinders", "int", {ValueError}, "-1"),
       Setter("Bytes per Sector", "int", {ValueError}, "-1"),
       Setter("Firmware", "assign", {AttributeError}, "Unspecified"),
       Setter("Interface", "assign", {AttributeError}, ""),
       Setter("Media Loaded", "assign", {AttributeError}, "False"),
       Setter("Status", "assign", {AttributeError}, "") >>

\* WindowsPartition.__init__: the setters in the order of the calls
WindowsPartition_setters ==
    << Setter("Blocksize", "int", {AttributeError, ValueError}, "-1"),
       Setter("Bootable", "assign", {AttributeError}, "False"),
       Setter("Active", "assign", {AttributeError}, "False"),
       Setter("Description", "assign", {AttributeError}, ""),
       Setter("Device I.D.", "assign", {AttributeError}, ""),
       Setter("Disk Number", "int", {AttributeError, ValueError}, "-1"),
       Setter("Partition Number", "int", {AttributeError, ValueError}, "-1"),
       Setter("Blocks", "int", {AttributeError, ValueError}, "-1"),
       Setter("Primary", "assign", {AttributeError}, "False"),
       Setter("Size", "int", {AttributeError, ValueError}, "0"),
       Setter("Offset", "int", {AttributeError, ValueError}, "-1"),
       Setter("Type", "assign", {AttributeError}, "") >>

\* WindowsLogicalDisk.__init__: the setters in the order of the calls
WindowsLogicalDisk_setters ==
    << Setter("Description", "str", {AttributeError}, ""),
       Setter("Device I.D.", "str", {AttributeError}, ""),
       Setter("Name", "str", {AttributeError}, ""),
       Setter("Mounted", "str", {AttributeError}, "\\"),
       Setter("Type", "int", {AttributeError, ValueError}, "Unknown"),
       Setter("Filesystem", "str", {AttributeError}, "unknown"),
       Setter("Free Space", "int",
              {AttributeError, ValueError, TypeError}, "0"),
       Setter("Max Component Length", "int",
              {AttributeError, ValueError, TypeError}, "0"),
       Setter("Size", "int", {AttributeError, ValueError, TypeError}, "0"),
       Setter("Label", "str", {AttributeError}, ""),
       Setter("Serial", "str", {AttributeError}, "") >>

\* a store of a constructor argument under a key
Store(key) == Setter(key, "assign", {}, "")

\* LinuxPhysicalDisk.__init__: the stores of _set_name_and_path and
\* _set_size_and_sectors
LinuxPhysicalDisk_setters ==
    << Store("Name"), Store("Path"), Store("Sectors"),
       Store("Bytes per Sector"), Store("Size") >>

\* LinuxPartition.__init__: the stores of _set_device_id_and_path and
\* _set_blocks_and_size
LinuxPartition_setters ==
    << Store("Device I.D."), Store("Path"), Store("Number of Blocks"),
       Store("Size") >>

\* LinuxLogicalDisk.__init__: the stores of _set_path_device_id_and_name
\* and of the constructor
LinuxLogicalDisk_setters ==
    << Store("Path"), Store("Device I.D."), Store("Name"),
       Store("Filesystem"), Store("Size"), Store("Free Space") >>

\* the classes whose constructors read a raw WMI record
WindowsClasses ==
    {"WindowsPhysicalDisk", "WindowsPartition", "WindowsLogicalDisk"}

\* the classes whose constructors take the values parsed by LinuxSystem
LinuxClasses == {"LinuxPhysicalDisk", "LinuxPartition", "LinuxLogicalDisk"}

\* the base classes, which store nothing after declaring their keys
BaseClasses == {"PhysicalDisk", "Partition", "LogicalDisk"}

\* WindowsLogicalDisk._DRIVETYPES
DRIVETYPES ==
    << "Unknown", "No Root Directory", "Removable Disk", "Local Disk",
       "Network Drive", "Compact Disk", "RAM Disk" >>

\* WindowsLogicalDisk._set_drive_type for an integer DriveType: the item
\* of the list at the index, counted from the end for a negative index,
\* and the first item on IndexError
WindowsLogicalDisk_set_drive_type(drivetype) ==
    IF drivetype \in 0..(Len(DRIVETYPES) - 1) THEN DRIVETYPES[drivetype + 1]
    ELSE IF drivetype \in (-Len(DRIVETYPES))..(-1)
         THEN DRIVETYPES[Len(DRIVETYPES) + drivetype + 1]
         ELSE DRIVETYPES[1]

\* the DriveType codes of the raw logical disks
DriveTypes == (-9)..8

\* the setters of a class
Setters(class) ==
    CASE class = "WindowsPhysicalDisk" -> WindowsPhysicalDisk_setters
      [] class = "WindowsPartition" -> WindowsPartition_setters
      [] class = "WindowsLogicalDisk" -> WindowsLogicalDisk_setters
      [] class = "LinuxPhysicalDisk" -> LinuxPhysicalDisk_setters
      [] class = "LinuxPartition" -> LinuxPartition_setters
      [] class = "LinuxLogicalDisk" -> LinuxLogicalDisk_setters
      [] OTHER -> <<>>

\* what the try block of a setter does with a raw property: the exception
\* it raises, or "" and the value it stores.  Reading a missing attribute
\* raises AttributeError; int() raises TypeError on None and ValueError on
\* a string that is no number; a plain assignment stores what it reads; the
\* setters with a type test store the sentinel for what is no str.
Try(setter, raw) ==
    CASE raw = "value" -> [raises |-> "", stores |-> "value"]
      [] raw = "missing" -> [raises |-> AttributeError, stores |-> ""]
      [] setter.convert = "int" /\ raw = "null" ->
            [raises |-> TypeError, stores |-> ""]
      [] setter.convert = "int" /\ raw = "unconvertible" ->
            [raises |-> ValueError, stores |-> ""]
      [] setter.convert = "str" -> [raises |-> "", stores |-> setter.sentinel]
      [] setter.convert = "assign" /\ raw = "null" ->
            [raises |-> "", stores |-> "None"]
      [] OTHER -> [raises |-> "", stores |-> "unconverted"]

\* a setter with its except clauses: the exception that leaves it, or ""
\* and the value the field holds
Set(setter, raw) ==
    LET try == Try(setter, raw)
    IN  IF try.raises = "" THEN try
        ELSE IF try.raises \in setter.catches
             THEN [raises |-> "", stores |-> setter.sentinel]
             ELSE try

\* a constructor is called with a raw record that has at most one property
\* with a defect
InitFields ==
    /\ InitBuild
    /\ caller = "library"
    /\ arguments = NoArguments
    /\ parse = NoParse
    /\ render = NoRender
    /\ \E class \in WindowsClasses \cup LinuxClasses \cup BaseClasses :
          \/ entity = [NoEntity EXCEPT !.class = class]
          \/ \E drivetype \in DriveTypes :
                /\ class = "WindowsLogicalDisk"
                /\ entity = [NoEntity EXCEPT !.class = class,
                                             !.DriveType = drivetype]
          \/ \E i \in 1..Len(Setters(class)), defect \in Defects :
                /\ class \in WindowsClasses
                /\ entity = [NoEntity EXCEPT
                             !.class = class,
                             !.attribute = Setters(class)[i].key,
                             !.defect = defect]

\* the next setter call of __init__ of a class
SetField(class) ==
    /\ entity.class = class
    /\ entity.raised = ""
    /\ entity.position < Len(Setters(class))
    /\ LET setter == Setters(class)[entity.position + 1]
           raw == IF setter.key = entity.attribute THEN entity.defect
                  ELSE "value"
           set == IF class = "WindowsLogicalDisk" /\ setter.key = "Type"
                     /\ raw = "value"
                  THEN [raises |-> "",
                        stores |-> WindowsLogicalDisk_set_drive_type(
                                       entity.DriveType)]
                  ELSE Set(setter, raw)
       IN  entity' = [entity EXCEPT
                         !.position = @ + 1,
                         !.raised = set.raises,
                         !.fields = IF set.raises = "" THEN
                                        Append(@, <<setter.key, set.stores>>)
                                    ELSE @]
    /\ UNCHANGED <<platform, pc, wmi_disk, wmi_partition, records,
                   block_devices, df_lines, reported>>
    /\ UNCHANGED main_vars
    /\ UNCHANGED graph_vars
    /\ UNCHANGED <<parse, call, render>>

NextFields ==
    \/ SetField("WindowsPhysicalDisk")
    \/ SetField("WindowsPartition")
    \/ SetField("WindowsLogicalDisk")
    \/ SetField("LinuxPhysicalDisk")
    \/ SetField("LinuxPartition")
    \/ SetField("LinuxLogicalDisk")

SpecFields == InitFields /\ [][NextFields]_vars

\* the values the except clauses may leave in a field
Sentinels == {"0", "-1", "", "unknown", "Unknown", "False"}

\* C14: whatever single property of a raw record is missing, null or not
\* convertible, no exception leaves the constructor, and once its setter
\* has run the field holds a sentinel: 0 or -1, "" or "unknown", false.
C14_FieldFailuresAbsorbed ==
    /\ entity.raised = ""
    /\ \A i \in 1..Len(entity.fields) :
           entity.fields[i][1] = entity.attribute =>
               entity.fields[i][2] \in Sentinels

----------------------------------------------------------------------------
(* What main renders *)

\* C17: no line, the header of the system included, is printed before the
\* construction of the system has completed, and once construction has
\* raised no line is ever printed.
C17_NothingRenderedOnFailure ==
    /\ output # <<>> => (pc \in {"walk", "done"} /\ call.raised = "")
    /\ call.raised # "" => (pc = "raised" /\ output = <<>>)

\* main's construction has raised on the df command, after disks had been
\* built
C17_Witness ==
    /\ caller = "main"
    /\ pc = "raised"
    /\ call.at = "source"
    /\ physical_disks # <<>>
    /\ output = <<>>

\* the disk-first walk with the partitions listed
DiskFirstWithPartitions ==
    /\ pc \in {"walk", "done"}
    /\ ~arguments.logical_disk_orientation
    /\ ~arguments.list_from_partitions
    /\ arguments.physical_disk_list_partitions

\* the disks the walk has been through
Walked == 1..(next_entity - 1)

----------------------------------------------------------------------------
(* The options of the other orientation *)

\* SanitizedArguments.__init__, the end: list_partitions and
\* partitions_list_children from -l, -p and the flags the parsers returned
SanitizedArguments_structure(logical_disk_orientation, list_from_partitions, physical_disk_list_partitions, partition_list_logical_disks, partition_show_physical_disk, logical_disk_list_partitions) ==
    LET orientation ==
            IF logical_disk_orientation /\ logical_disk_list_partitions
            THEN TRUE
            ELSE IF ~logical_disk_orientation
                    /\ physical_disk_list_partitions
            THEN TRUE
            ELSE FALSE
    IN  [list_partitions |->
             IF list_from_partitions THEN TRUE ELSE orientation,
         partitions_list_children |->
             IF partition_list_logical_disks /\ ~logical_disk_orientation
             THEN TRUE
             ELSE IF partition_show_physical_disk
                     /\ logical_disk_orientation
             THEN TRUE
             ELSE FALSE]

\* an option string without the character token
Without(option_string, token) ==
    LET Other(each_option) == each_option # token
    IN  SelectSeq(option_string, Other)

\* main as a whole, from the print of the header to the end of iteration
\* n of its loop, on the system built, for the arguments args
RECURSIVE main_walk(_, _)
main_walk(args, n) ==
    IF n = 0
    THEN main_system([indent |-> 0, output |-> <<>>, arguments |-> args])
    ELSE LET w == main_walk(args, n - 1)
         IN  IF args.logical_disk_orientation
             THEN IF args.list_from_partitions
                  THEN main_partition_of_logical_disks(w, n)
                  ELSE main_logical_disk(w, n)
             ELSE IF args.list_from_partitions
                  THEN main_partition(w, n)
                  ELSE main_physical_disk(w, n)

\* the arguments with the flag of D in -pp and the flag of P in -lp replaced
OtherOrientationFlags(args, show_physical_disk, list_partitions) ==
    [args EXCEPT !.partition_show_physical_disk = show_physical_disk,
                 !.logical_disk_list_partitions = list_partitions]

\* C20: without -l, D in -pp and P in -lp change nothing.  When the
\* arguments are parsed (before create_system), an option string of -pp
\* with D and the same string without D give the same list, the same L flag
\* and the same size flag, likewise an option string of -lp with and without
\* P, and the flags list_partitions and partitions_list_children that
\* SanitizedArguments derives are the same whatever the flags of D and P
\* are; and on every system, what main has printed so far is what it would
\* have printed with the flag of D and the flag of P set any other way.
C20_OtherOrientationOptionsIgnored ==
    /\ pc = "create" =>
          /\ \A option_string \in OptionStrings :
                LET with == parse_arguments("pp", NoParse, option_string, 1)
                    without == parse_arguments(
                                   "pp", NoParse,
                                   Without(option_string, "D"), 1)
                IN  /\ with.return_list = without.return_list
                    /\ with.list_logical_disks = without.list_logical_disks
                    /\ with.size_human_readable
                           = without.size_human_readable
                    /\ ~without.show_physical_disk
          /\ \A option_string \in OptionStrings :
                LET with == parse_arguments("lp", NoParse, option_string, 1)
                    without == parse_arguments(
                                   "lp", NoParse,
                                   Without(option_string, "P"), 1)
                IN  /\ with.return_list = without.return_list
                    /\ with.size_human_readable
                           = without.size_human_readable
                    /\ ~without.list_partitions
          /\ \A D, P \in BOOLEAN :
                SanitizedArguments_structure(
                    FALSE, arguments.list_from_partitions,
                    arguments.physical_disk_list_partitions,
                    arguments.partition_list_logical_disks, D, P)
                = SanitizedArguments_structure(
                      FALSE, arguments.list_from_partitions,
                      arguments.physical_disk_list_partitions,
                      arguments.partition_list_logical_disks,
                      arguments.partition_show_physical_disk,
                      arguments.logical_disk_list_partitions)
    /\ (pc \in {"walk", "done"} /\ ~arguments.logical_disk_orientation) =>
          \A D, P \in BOOLEAN :
              LET other == main_walk(OtherOrientationFlags(arguments, D, P),
                                     next_entity - 1)
              IN  /\ other.output = output
                  /\ other.indent = indent

\* main has returned from a walk without -l over a system with partitions
\* that have logical disks, D and P were given, and with -l the same
\* options would have changed the output
C20_Witness ==
    /\ pc = "done"
    /\ ~arguments.logical_disk_orientation
    /\ arguments.partition_show_physical_disk
    /\ arguments.logical_disk_list_partitions
    /\ \E i \in 1..Len(output) : output[i].kind = "Partition"
    /\ \E p \in FlatPartitions : parts[p].logical_disks # <<>>
    /\ LET with_l == [arguments EXCEPT !.logical_disk_orientation = TRUE]
       IN  main_walk(with_l, Len(
                 IF with_l.list_from_partitions THEN partitions
                 ELSE logical_disks)).output
           # main_walk(OtherOrientationFlags(with_l, FALSE, FALSE), Len(
                 IF with_l.list_from_partitions THEN partitions
                 ELSE logical_disks)).output

----------------------------------------------------------------------------
(* Duplicates in the lists of the entities *)

\* a list holds no object twice
NoDuplicates(seq) == \A i, j \in 1..Len(seq) : i # j => seq[i] # seq[j]

\* C21: the partition list of a physical disk never holds the same
\* Partition twice, also when the enumeration of the disk has yielded a
\* record with the same Device I.D. more than once.
C21_DiskListsPartitionOnce ==
    \A d \in 1..Len(physical_disks) :
        NoDuplicates(physical_disks[d].partitions)

\* C22: wiring a partition and a logical disk that are wired already changes
\* neither list: the logical disks of a partition hold no logical disk
\* twice and the partitions of a logical disk hold no partition twice.
C22_WiringIdempotent ==
    /\ \A p \in 1..Len(parts) : NoDuplicates(parts[p].logical_disks)
    /\ \A l \in 1..Len(lds) : NoDuplicates(lds[l].partitions)

----------------------------------------------------------------------------
(* The keys of the entities *)

\* the keys the base class of a class declares in its __init__
Schema(class) ==
    CASE class \in {"PhysicalDisk", "WindowsPhysicalDisk",
                    "LinuxPhysicalDisk"} -> PhysicalDiskKeys
      [] class \in {"Partition", "WindowsPartition", "LinuxPartition"} ->
            PartitionKeys
      [] class \in {"LogicalDisk", "WindowsLogicalDisk",
                    "LinuxLogicalDisk"} -> LogicalDiskKeys
      [] OTHER -> {}

\* __init__ of the class of the entity has returned
Constructed ==
    /\ entity.class # ""
    /\ entity.raised = ""
    /\ entity.position = Len(Setters(entity.class))

\* keys() of the entity: the keys its base class declared and the keys
\* stored since
ExposedKeys ==
    Schema(entity.class)
        \cup {entity.fields[i][1] : i \in 1..Len(entity.fields)}

\* C23: once the constructor of a base, Windows or Linux entity has
\* returned, the keys of the entity are exactly the keys its base class
\* declares: none is added and none is missing.
C23_ExactlyTheDeclaredKeys ==
    Constructed => ExposedKeys = Schema(entity.class)

----------------------------------------------------------------------------
(* The partitions of the Linux disks *)

\* the line of /proc/partitions that names a device
RecordOf(name) == CHOOSE r \in Range(block_devices) : r[3] = name

\* the line of a physical disk
DiskRecord(d) ==
    CHOOSE r \in Range(block_devices) :
        "/dev/" \o r[3] = physical_disks[d].Path

\* a device lies on a disk: it has the major number of the disk and a minor
\* number among the fifteen that follow the minor number of the disk, the
\* numbering of which _get_scsi_hard_drives takes the multiples of 16
LiesOn(r, disk) ==
    /\ r[1] = disk[1]
    /\ int(r[2]) % 16 # 0
    /\ int(r[2]) - (int(r[2]) % 16) = int(disk[2])

\* the partitions a LinuxSystem made from the lines of /proc/partitions
TablePartitions(list) == {p \in Range(list) : ~parts[p].isdummy}

\* C24: in a built LinuxSystem, a partition made from a line of
\* /proc/partitions is listed only by the disk it lies on, no line of a
\* whole disk is a partition, and the flat index holds exactly the lines
\* that lie on a recognized disk.
C24_PartitionsLieOnTheirDisk ==
    (Built /\ platform = "linux") =>
        /\ \A d \in 1..Len(physical_disks) :
               \A p \in TablePartitions(physical_disks[d].partitions) :
                   LiesOn(RecordOf(parts[p].DeviceID), DiskRecord(d))
        /\ \A p \in TablePartitions(partitions) :
               \A d \in 1..Len(physical_disks) :
                   parts[p].Path # physical_disks[d].Path
        /\ {parts[p].DeviceID : p \in TablePartitions(partitions)}
               = {r[3] : r \in {r \in Range(block_devices) :
                                   \E d \in 1..Len(physical_disks) :
                                       LiesOn(r, DiskRecord(d))}}

----------------------------------------------------------------------------
(* The back-reference of a partition *)

\* C25 as stated: for every partition P in the partition list of a
\* physical disk D, P.get_physical_disk() is D.
C25_BackReferenceIsListingDisk ==
    \A d \in 1..Len(physical_disks) :
        \A p \in Range(physical_disks[d].partitions) :
            parts[p].physical_disk = d

\* C25 amended: for every partition P in the partition list of a physical
\* disk, P.get_physical_disk() is the first disk that lists P; it is D for
\* every P that D alone lists.
C25_BackReferenceIsFirstListingDisk ==
    \A d \in 1..Len(physical_disks) :
        \A p \in Range(physical_disks[d].partitions) :
            /\ parts[p].physical_disk = Min(Owners(p))
            /\ Owners(p) = {d} => parts[p].physical_disk = d

\* C25 witness: a built system where two disks list one partition, whose
\* back-reference is the first of them, and a disk lists a partition alone.
C25_Witness ==
    /\ Built
    /\ \E p \in FlatPartitions :
           /\ Cardinality(Owners(p)) = 2
           /\ parts[p].physical_disk = Min(Owners(p))
    /\ \E p \in FlatPartitions : Cardinality(Owners(p)) = 1

----------------------------------------------------------------------------
(* human_readable_units and str_logical_disk.  A rendered number is the    *)
(* sequence of the integer before the point and the digits after it, with  *)
(* the suffix that follows.  The values are below 2^31, so below           *)
(* UNITS['TB'].                                                            *)

\* the unit types _calculate_auto_unit tries for value_type 'B', in order
DecimalUnits == <<"PB", "TB", "GB", "MB", "KB", "B">>

\* the units whose size is a value of the model
SmallUnits == {"GB", "MB", "KB", "B"}

\* UNITS[unit], for the small units
UNITS(unit) ==
    CASE unit = "B" -> 1
      [] unit = "KB" -> 1000
      [] unit = "MB" -> 1000000
      [] unit = "GB" -> 1000000000

\* value/UNITS[unit] > 1: false for the units above every value
GreaterThanOne(value, unit) ==
    unit \in SmallUnits /\ value > UNITS(unit)

\* _calculate_auto_unit, the loop from position i of the tuple on: the unit
\* at the break, the last unit when the loop ends
RECURSIVE calculate_auto_unit(_, _)
calculate_auto_unit(value, i) ==
    IF i = Len(DecimalUnits) \/ GreaterThanOne(value, DecimalUnits[i])
    THEN DecimalUnits[i]
    ELSE calculate_auto_unit(value, i + 1)

\* human_readable_units(value): value/UNITS[unit] with two decimal places,
\* none for B.  The quotient is rounded to hundredths from its thousandths
\* and what is left beyond them (no value of the model is a tie).
human_readable_units(value) ==
    LET unit == calculate_auto_unit(value, 1)
    IN  IF unit = "B" THEN [number |-> <<value>>, suffix |-> "B"]
        ELSE LET size == UNITS(unit)
                 thousandths == (value % size) \div (size \div 1000)
                 rest == (value % size) % (size \div 1000)
                 up == \/ thousandths % 10 > 5
                       \/ thousandths % 10 = 5 /\ rest > 0
                 hundredths == (value \div size) * 100 + thousandths \div 10
                                   + (IF up THEN 1 ELSE 0)
             IN  [number |-> <<hundredths \div 100,
                               (hundredths % 100) \div 10, hundredths % 10>>,
                  suffix |-> unit]

\* str(value) of an int
str_int(value) == [number |-> <<value>>, suffix |-> ""]

\* convert_int_to_str
convert_int_to_str(value, human_readable) ==
    IF human_readable THEN human_readable_units(value) ELSE str_int(value)

\* a loop body that renders Free Space as it renders Size: C29 depends on
\* the branch of str_logical_disk for Free Space
str_logical_disk_property_toggled(logical_disk, each_property, human) ==
    [property |-> each_property,
     text |-> CASE each_property = "Size" ->
                      convert_int_to_str(logical_disk.Size, human)
                [] each_property = "Free Space" ->
                      convert_int_to_str(logical_disk.FreeSpace, human)
                [] OTHER -> [number |-> <<>>, suffix |-> ""]]

\* str_logical_disk, the body of the loop over the properties: the string
\* appended for each_property (the other properties of the logical disk
\* are empty strings)
str_logical_disk_property(logical_disk, each_property, human) ==
    [property |-> each_property,
     text |-> CASE each_property = "Size" ->
                      convert_int_to_str(logical_disk.Size, human)
                [] each_property = "Free Space" ->
                      human_readable_units(logical_disk.FreeSpace)
                [] OTHER -> [number |-> <<>>, suffix |-> ""]]

\* the sizes of the logical disks rendered: around the sizes of the units
Sizes ==
    {-1, 0, 1, 999, 1000, 1001, 999999, 1000000, 1000001, 1000000000}

FreeSpaces == {999, 1000, 1500000}

\* the option strings of -lp rendered
RenderOptionStrings ==
    UNION {[1..n -> {"s", "S", "F", "d"}] : n \in 0..MaxOptions}

\* SanitizedArguments is about to parse -lp; str_logical_disk will be given
\* a logical disk
InitRender ==
    /\ InitBuild
    /\ caller = "library"
    /\ arguments = NoArguments
    /\ entity = NoEntity
    /\ \E option_string \in RenderOptionStrings :
           parse = [NoParse EXCEPT !.function = "lp",
                                   !.arguments = option_string]
    /\ \E size \in Sizes, free_space \in FreeSpaces :
           render = [NoRender EXCEPT
                        !.logical_disk = [Size |-> size,
                                          FreeSpace |-> free_space]]

\* str_logical_disk, one iteration of the loop over
\* arguments.logical_disk_options
StrLogicalDisk ==
    /\ Parsed
    /\ parse.function = "lp"
    /\ Len(render.strings) < Len(parse.return_list)
    /\ render' = [render EXCEPT !.strings =
                     Append(@, str_logical_disk_property(
                                   render.logical_disk,
                                   parse.return_list[Len(@) + 1],
                                   parse.size_human_readable))]
    /\ UNCHANGED <<platform, pc, wmi_disk, wmi_partition, records,
                   block_devices, df_lines, reported>>
    /\ UNCHANGED main_vars
    /\ UNCHANGED graph_vars
    /\ UNCHANGED <<parse, call, entity>>

NextRender ==
    \/ ParseOption("lp")
    \/ StrLogicalDisk

SpecRender == InitRender /\ [][NextRender]_vars

\* the largest decimal unit whose size is at most the value, B below 1
LargestUnitWithin(value) ==
    LET within == {u \in SmallUnits : UNITS(u) <= value}
    IN  IF within = {} THEN "B"
        ELSE CHOOSE u \in within : \A v \in within : UNITS(u) >= UNITS(v)

\* the strings of str_logical_disk that human_readable_units has rendered,
\* with the value rendered
HumanReadable ==
    {<<render.strings[i].text, render.logical_disk.FreeSpace>> :
        i \in {i \in 1..Len(render.strings) :
                  render.strings[i].property = "Free Space"}}
    \cup
    {<<render.strings[i].text, render.logical_disk.Size>> :
        i \in {i \in 1..Len(render.strings) :
                  /\ render.strings[i].property = "Size"
                  /\ parse.size_human_readable}}

\* C26: the unit human_readable_units selects is the largest decimal unit
\* whose size is less than or equal to the value: 999 is rendered 999B,
\* 1000 is rendered 1.00KB, and likewise at the size of every unit.
C26_LargestUnitAtMostValue ==
    \A r \in HumanReadable :
        /\ r[1].suffix = LargestUnitWithin(r[2])
        /\ r[2] = 999 => r[1] = [number |-> <<999>>, suffix |-> "B"]
        /\ r[2] = 1000 => r[1] = [number |-> <<1, 0, 0>>, suffix |-> "KB"]

\* C29: whatever the -lp string selects of 's' and 'S', the Free Space of a
\* logical disk is rendered by human_readable_units, the same with the size
\* flag set and cleared, and the Size follows the flag: human-readable when
\* it is set, the plain integer when it is cleared.
C29_FreeSpaceAlwaysHumanReadable ==
    \A i \in 1..Len(render.strings) :
        LET string == render.strings[i]
        IN  /\ string.property = "Free Space" =>
                  /\ string.text
                         = human_readable_units(render.logical_disk.FreeSpace)
                  /\ \A human \in BOOLEAN :
                         str_logical_disk_property(
                             render.logical_disk, "Free Space", human)
                         = string
            /\ string.property = "Size" =>
                  string.text
                      = IF parse.size_human_readable
                        THEN human_readable_units(render.logical_disk.Size)
                        ELSE str_int(render.logical_disk.Size)

\* C29 witness: 'S' was the last size token, the Size is rendered as the
\* plain integer and the Free Space with its unit.
C29_Witness ==
    /\ "S" \in Range(parse.arguments)
    /\ ~parse.size_human_readable
    /\ \E i, j \in 1..Len(render.strings) :
           /\ render.strings[i].property = "Size"
           /\ render.strings[i].text.suffix = ""
           /\ render.strings[j].property = "Free Space"
           /\ render.strings[j].text.suffix # ""

----------------------------------------------------------------------------
(* The indentation counter of main *)

----------------------------------------------------------------------------
(* Closure of the graph *)

\* C28: after a successful build, every partition in the partition list of
\* a disk is in the flat partition index, every logical disk attached to a
\* partition is in the flat logical disk index, and every logical disk of
\* the flat index is attached to at least one partition.
C28_GraphClosure ==
    Built =>
        /\ \A d \in 1..Len(physical_disks) :
               Range(physical_disks[d].partitions) \subseteq FlatPartitions
        /\ \A p \in 1..Len(parts) :
               Range(parts[p].logical_disks) \subseteq FlatLogicalDisks
        /\ \A l \in FlatLogicalDisks :
               \E p \in 1..Len(parts) : l \in Range(parts[p].logical_disks)

\* C28 witness: a built system with two registered logical disks, one of
\* them attached to two partitions, and a disk that lists partitions.
C28_Witness ==
    /\ Built
    /\ Len(logical_disks) >= 2
    /\ \E l \in FlatLogicalDisks :
           Cardinality({p \in 1..Len(parts) :
                           l \in Range(parts[p].logical_disks)}) >= 2
    /\ \E d \in 1..Len(physical_disks) : physical_disks[d].partitions # <<>>

----------------------------------------------------------------------------
(* The type of a Windows logical disk *)

\* the Type of the WindowsLogicalDisk being constructed, once set
TypeSet ==
    {entity.fields[i][2] :
        i \in {i \in 1..Len(entity.fields) : entity.fields[i][1] = "Type"}}

\* C30: a WindowsLogicalDisk gets the name of its drive type only for the
\* codes 0 to 6; every other integer code, negative or above 6, and every
\* missing or non-numeric code gives the Type 'Unknown', and no exception.
C30_DriveTypeNamedOnlyFrom0To6 ==
    entity.class = "WindowsLogicalDisk" =>
        /\ entity.attribute = "Type" => entity.raised = ""
        /\ \A type \in TypeSet :
               IF entity.attribute = "Type" THEN type = "Unknown"
               ELSE IF entity.DriveType \in 0..6
                    THEN type = DRIVETYPES[entity.DriveType + 1]
                    ELSE type = "Unknown"

====
